---- MODULE Spec2Model ----
(***************************************************************************)
(* Model of src/server.js: an Express application serving a collection of  *)
(* Book documents held in MongoDB (through mongoose), with an optional     *)
(* reseed of the collection at process start.                              *)
(*                                                                         *)
(* Strings that the code inspects character by character (the :bookID and  *)
(* :authorName path parameters, the authors field) are sequences of        *)
(* one-character strings.  average_rating is kept in tenths (4.5 is 45).   *)
(* An async handler is one action per stretch of code between two awaits.  *)
(***************************************************************************)
EXTENDS Integers, Sequences, FiniteSets

VARIABLES
    resetDb,       \* process.env.RESET_DB is set
    seedPc,        \* "init" | "off" | "deleteMany" | "finished": position of lines 29-40
    pendingSaves,  \* indexes of booksData whose save() was issued and has not completed
    store,         \* the Book collection, in the store's native order
    listening,     \* app.listen has been called
    pc,            \* position of the request handler: "idle" | "awaitFind" | "awaitFind2" | "done"
    route,         \* route of the request being handled
    param,         \* req.params.bookID / req.params.authorName, a sequence of characters
    quickRead,     \* req.query.quickRead
    topBooks,      \* the handler's local topBooks, alive across the second await
    finds,         \* store queries the handler has issued for this request
    sendCalls,     \* response-sending calls (res.send / res.json) made for this request
    response,      \* the response delivered to the client (status 0: none yet)
    thrown,        \* the exception raised inside the handler, "none" if none
    unhandled      \* the exception escaped the handler (rejected promise nobody handles)

vars == <<resetDb, seedPc, pendingSaves, store, listening, pc, route, param,
          quickRead, topBooks, finds, sendCalls, response, thrown, unhandled>>

seedVars == <<resetDb, seedPc, pendingSaves, store, listening>>
reqVars == <<pc, route, param, quickRead, topBooks, finds, sendCalls, response,
             thrown, unhandled>>

-----------------------------------------------------------------------------
(* Bounds of the model *)

\* longest :bookID text tried
MaxIdLen == 3
\* longest :authorName text tried
MaxNameLen == 2
\* most documents in the collection before the process starts
MaxPrior == 2

-----------------------------------------------------------------------------
(* Data *)

\* { average_rating: { $gte: 4 } }, in tenths
RatingThreshold == 40
\* { num_pages: { $lte: 600 } }
PageLimit == 600

MkBook(id, au, rating, pages) ==
    [bookID |-> id, authors |-> au, average_rating |-> rating, num_pages |-> pages]

\* ./data/books.json: the records of the specification's concrete scenario
\* (Stephen King 4.5/500, J.K. Rowling 3.9/700) and one at the rating
\* threshold that is one page too long.
booksData ==
    << MkBook(1, <<"K", "i">>, 45, 500),
       MkBook(2, <<"J", ".", "K">>, 39, 700),
       MkBook(3, <<"J", "i">>, 40, 601) >>

Range(s) == {s[i] : i \in DOMAIN s}

\* Documents the collection may hold before the process starts: the seed
\* records of an earlier run and a record sharing bookID 1 (bookID is not a
\* key of the collection), exactly on both thresholds.
Catalog == Range(booksData) \cup {MkBook(1, <<"k">>, 40, 600)}

SeqsUpTo(S, n) == UNION {[1..k -> S] : k \in 0..n}

IdChars == {"1", "5", ".", "a"}
NameChars == {"k", "K", ".", "*", "("}
IdTexts == SeqsUpTo(IdChars, MaxIdLen) \ {<<>>}
NameTexts == SeqsUpTo(NameChars, MaxNameLen) \ {<<>>}

Undefined == [present |-> FALSE, text |-> ""]
QuickValues ==
    {Undefined} \cup {[present |-> TRUE, text |-> t] : t \in {"", "false", "1"}}

\* JavaScript truthiness of req.query.quickRead
Truthy(q) == q.present /\ q.text # ""

-----------------------------------------------------------------------------
(* Responses *)

NoBody == [kind |-> "none", text |-> "", books |-> <<>>]
NoResponse == [status |-> 0, body |-> NoBody]
TextBody(t) == [kind |-> "text", text |-> t, books |-> <<>>]
ErrorBody(t) == [kind |-> "error", text |-> t, books |-> <<>>]
ArrayBody(bs) == [kind |-> "array", text |-> "", books |-> bs]
ObjectBody(b) == [kind |-> "object", text |-> "", books |-> <<b>>]

Greeting == "Hello world, welcome to Vane Bookish API, now powered by MongoDB!"
NoBookMsg == "Sorry, no books found with that ID :("
InvalidIdMsg == "Invalid Book ID, double check book id value"
NoAuthorMsg == "Sorry, could not find any books by thay author, double check author name :("

\* What a handler has done to res so far.
Fresh == [response |-> NoResponse, sendCalls |-> 0, thrown |-> "none"]

\* res.send / res.json / res.status(n).json: the first call delivers the
\* response; a later call raises ERR_HTTP_HEADERS_SENT and delivers nothing.
\* Nothing runs after an exception.
ResSend(st, status, body) ==
    IF st.thrown # "none" THEN st
    ELSE IF st.sendCalls = 0
    THEN [st EXCEPT !.response = [status |-> status, body |-> body],
                    !.sendCalls = 1]
    ELSE [st EXCEPT !.sendCalls = @ + 1, !.thrown = "ERR_HTTP_HEADERS_SENT"]

-----------------------------------------------------------------------------
(* Casting of :bookID to the schema type of bookID (Number)                 *)

DigitChars == <<"0", "1", "2", "3", "4", "5", "6", "7", "8", "9">>
IsDigit(c) == \E i \in DOMAIN DigitChars : DigitChars[i] = c
DigitVal(c) == (CHOOSE i \in DOMAIN DigitChars : DigitChars[i] = c) - 1

RECURSIVE Pow10(_)
Pow10(n) == IF n = 0 THEN 1 ELSE 10 * Pow10(n - 1)

\* Numbers are kept as integers scaled by 10^FracDigits, enough for every
\* fractional digit an id text can carry.
FracDigits == MaxIdLen
Scaled(n) == n * Pow10(FracDigits)

RECURSIVE DecimalSum(_, _, _)
\* Sum over positions i..Len(s) of the digits of s, the digit left of the
\* point position `dot` weighing 10^FracDigits.
DecimalSum(s, dot, i) ==
    IF i > Len(s) THEN 0
    ELSE (IF i = dot THEN 0
          ELSE IF i < dot THEN DigitVal(s[i]) * Pow10(FracDigits + dot - 1 - i)
          ELSE DigitVal(s[i]) * Pow10(FracDigits - (i - dot)))
         + DecimalSum(s, dot, i + 1)

\* Number(text) as mongoose's cast to Number applies it to a string, on texts
\* of digits, points and letters: a decimal literal with at most one point
\* and at least one digit is a number, anything else is NaN.
ToNumber(s) ==
    LET dots == {i \in DOMAIN s : s[i] = "."}
        literal == /\ \A i \in DOMAIN s : IsDigit(s[i]) \/ s[i] = "."
                   /\ Cardinality(dots) <= 1
                   /\ \E i \in DOMAIN s : IsDigit(s[i])
        dot == IF dots = {} THEN Len(s) + 1 ELSE CHOOSE i \in dots : TRUE
    IN  IF literal THEN [nan |-> FALSE, val |-> DecimalSum(s, dot, 1)]
        ELSE [nan |-> TRUE, val |-> 0]

-----------------------------------------------------------------------------
(* new RegExp(text, "i") and its test against a string, for patterns of     *)
(* letters, '.', '*' and '('                                                *)

Lower(c) == CASE c = "K" -> "k" [] c = "J" -> "j" [] c = "I" -> "i" [] OTHER -> c

\* The RegExp constructor raises SyntaxError on a group that is never closed
\* ("Unterminated group") and on a '*' with nothing before it to repeat
\* ("Nothing to repeat").
RegExpSyntaxError(p) ==
    \/ \E i \in DOMAIN p : p[i] = "(" /\ \A j \in (i + 1)..Len(p) : p[j] # ")"
    \/ \E i \in DOMAIN p : p[i] = "*" /\ (i = 1 \/ p[i - 1] \in {"*", "("})

\* The pattern as atoms: a character (or '.') and whether a '*' follows it.
Atoms(p) ==
    LET at == {i \in DOMAIN p : p[i] # "*"}
        nth(k) == CHOOSE i \in at : Cardinality({j \in at : j < i}) = k - 1
    IN  [k \in 1..Cardinality(at) |->
            LET i == nth(k)
            IN  [ch |-> p[i], star |-> i < Len(p) /\ p[i + 1] = "*"]]

\* '.' matches any character; with flag "i" letters match in either case.
CharMatches(ch, x) == ch = "." \/ Lower(ch) = Lower(x)

RECURSIVE MatchFrom(_, _, _, _)
\* Atoms k.. of `atoms` match a stretch of s starting at position pos.
MatchFrom(atoms, k, s, pos) ==
    IF k > Len(atoms) THEN TRUE
    ELSE IF atoms[k].star
    THEN \/ MatchFrom(atoms, k + 1, s, pos)
         \/ /\ pos <= Len(s)
            /\ CharMatches(atoms[k].ch, s[pos])
            /\ MatchFrom(atoms, k, s, pos + 1)
    ELSE /\ pos <= Len(s)
         /\ CharMatches(atoms[k].ch, s[pos])
         /\ MatchFrom(atoms, k + 1, s, pos + 1)

\* { $regex: new RegExp(p, "i") }: the pattern matches somewhere in s.
RegExpTest(p, s) == \E pos \in 1..(Len(s) + 1) : MatchFrom(Atoms(p), 1, s, pos)

-----------------------------------------------------------------------------
(* Queries *)

\* { bookID: n }
HasBookID(d, n) == Scaled(d.bookID) = n.val
\* { authors: { $regex: new RegExp(name, "i") } }
AuthorMatches(d, name) == RegExpTest(name, d.authors)
\* Variant of IsTopRated with $gt in place of $gte; C8_TopRatedBody tells the
\* two apart on a record rated exactly 4.0.
IsTopRatedStrict(d) == d.average_rating > RatingThreshold
\* { average_rating: { $gte: 4 } }
IsTopRated(d) == d.average_rating >= RatingThreshold
\* { average_rating: { $gte: 4 }, num_pages: { $lte: 600 } }
IsTopQuickRead(d) == d.average_rating >= RatingThreshold /\ d.num_pages <= PageLimit

RECURSIVE FirstIndex(_, _, _)
\* The first position from i on holding a document with bookID n, 0 if none.
FirstIndex(docs, n, i) ==
    IF i > Len(docs) THEN 0
    ELSE IF HasBookID(docs[i], n) THEN i
    ELSE FirstIndex(docs, n, i + 1)

\* Variant of FindOne that keeps the last match in store order;
\* C6_FirstMatchById tells the two apart on records sharing a bookID.
FindOneLast(docs, n) ==
    LET hits == {i \in DOMAIN docs : HasBookID(docs[i], n)}
    IN  IF hits = {} THEN <<>>
        ELSE <<docs[CHOOSE i \in hits : \A j \in hits : j <= i]>>

\* Book.findOne({ bookID: n }): the first match in store order as a
\* one-element sequence, the empty sequence for null.
FindOne(docs, n) ==
    LET i == FirstIndex(docs, n, 1)
    IN  IF i = 0 THEN <<>> ELSE <<docs[i]>>

\* Book.find(): every document, in store order.
FindAll(docs) == docs
FindByAuthor(docs, name) == SelectSeq(docs, LAMBDA d : AuthorMatches(d, name))
FindTopRated(docs) == SelectSeq(docs, IsTopRated)
FindTopQuickRead(docs) == SelectSeq(docs, IsTopQuickRead)

-----------------------------------------------------------------------------
(* Process start and seeding *)

Init ==
    /\ resetDb \in BOOLEAN
    /\ seedPc = "init"
    /\ pendingSaves = {}
    /\ store \in SeqsUpTo(Catalog, MaxPrior)
    /\ listening = FALSE
    /\ pc = "idle"
    /\ route = "none"
    /\ param = <<>>
    /\ quickRead = Undefined
    /\ topBooks = <<>>
    /\ finds = 0
    /\ sendCalls = 0
    /\ response = NoResponse
    /\ thrown = "none"
    /\ unhandled = FALSE

\* The module's top-level statements, which run to the end without yielding:
\* with RESET_DB set, seedDatabase() runs up to its await of deleteMany and
\* hands back a promise nobody awaits; then the routes are registered and
\* app.listen is called.
Main ==
    /\ seedPc = "init"
    /\ seedPc' = IF resetDb THEN "deleteMany" ELSE "off"
    /\ listening' = TRUE
    /\ UNCHANGED <<resetDb, pendingSaves, store>>
    /\ UNCHANGED reqVars

\* deleteMany({}) completes: the collection is empty, forEach issues one
\* save() per seed record without awaiting any, and seedDatabase returns.
DeleteManyDone ==
    /\ seedPc = "deleteMany"
    /\ store' = <<>>
    /\ pendingSaves' = DOMAIN booksData
    /\ seedPc' = "finished"
    /\ UNCHANGED <<resetDb, listening>>
    /\ UNCHANGED reqVars

\* One of the save() calls in flight completes; the store appends the
\* document.  The saves were not chained, so they complete in any order.
SaveDone ==
    /\ \E i \in pendingSaves :
        /\ store' = Append(store, booksData[i])
        /\ pendingSaves' = pendingSaves \ {i}
    /\ UNCHANGED <<resetDb, seedPc, listening>>
    /\ UNCHANGED reqVars

-----------------------------------------------------------------------------
(* Request handlers *)

\* A request reaches its handler, which runs to its first await.
Begin(r, p, q) ==
    /\ listening
    /\ pc = "idle"
    /\ route' = r
    /\ param' = p
    /\ quickRead' = q
    /\ UNCHANGED seedVars

\* The handler's outcome st becomes the request's.
Finish(st) ==
    /\ pc' = "done"
    /\ response' = st.response
    /\ sendCalls' = st.sendCalls
    /\ thrown' = st.thrown
    /\ unhandled' = (st.thrown # "none")

\* app.get('/')
GetRoot ==
    /\ Begin("/", <<>>, Undefined)
    /\ Finish(ResSend(Fresh, 200, TextBody(Greeting)))
    /\ UNCHANGED <<topBooks, finds>>

\* app.get('/books'), up to await Book.find()
GetBooks ==
    /\ Begin("/books", <<>>, Undefined)
    /\ pc' = "awaitFind"
    /\ finds' = 1
    /\ UNCHANGED <<topBooks, sendCalls, response, thrown, unhandled>>

\* app.get('/books'), Book.find() resolved
BooksFound ==
    /\ pc = "awaitFind" /\ route = "/books"
    /\ Finish(ResSend(Fresh, 200, ArrayBody(FindAll(store))))
    /\ UNCHANGED <<route, param, quickRead, topBooks, finds>>
    /\ UNCHANGED seedVars

\* app.get('/books/book/:bookID'), up to await Book.findOne(...)
GetBook ==
    /\ \E id \in IdTexts : Begin("/books/book", id, Undefined)
    /\ pc' = "awaitFind"
    /\ finds' = 1
    /\ UNCHANGED <<topBooks, sendCalls, response, thrown, unhandled>>

\* if (singleBook) res.json(singleBook) else res.status(404).json(...)
BookResponse(singleBook) ==
    IF singleBook # <<>>
    THEN ResSend(Fresh, 200, ObjectBody(singleBook[1]))
    ELSE ResSend(Fresh, 404, TextBody(NoBookMsg))

\* app.get('/books/book/:bookID'), Book.findOne resolved: the text cast to a
\* Number and the store answered.
BookFound ==
    /\ pc = "awaitFind" /\ route = "/books/book"
    /\ ~ToNumber(param).nan
    /\ Finish(BookResponse(FindOne(store, ToNumber(param))))
    /\ UNCHANGED <<route, param, quickRead, topBooks, finds>>
    /\ UNCHANGED seedVars

\* app.get('/books/book/:bookID'), Book.findOne rejected, with a CastError
\* when the text is not a Number and with the store's error when the store
\* fails; the catch block answers 400 for either.
BookCatch ==
    /\ pc = "awaitFind" /\ route = "/books/book"
    /\ LET err == IF ToNumber(param).nan THEN "CastError" ELSE "StoreError"
           st == ResSend(Fresh, 400, ErrorBody(InvalidIdMsg))
       IN  /\ pc' = "done"
           /\ response' = st.response
           /\ sendCalls' = st.sendCalls
           /\ thrown' = err
           /\ unhandled' = FALSE
    /\ UNCHANGED <<route, param, quickRead, topBooks, finds>>
    /\ UNCHANGED seedVars

\* app.get('/books/authors/:authorName'), up to await Book.find(...): new
\* RegExp either raises SyntaxError, which ends the handler, or the query is
\* issued.
GetAuthors ==
    /\ \E name \in NameTexts : Begin("/books/authors", name, Undefined)
    /\ IF RegExpSyntaxError(param')
       THEN /\ Finish([Fresh EXCEPT !.thrown = "SyntaxError"])
            /\ UNCHANGED <<topBooks, finds>>
       ELSE /\ pc' = "awaitFind"
            /\ finds' = 1
            /\ UNCHANGED <<topBooks, sendCalls, response, thrown, unhandled>>

\* Variant of AuthorsResponse without the length check; C9_EmptyResultStatus
\* tells the two apart on an empty result.
AuthorsResponseNoCheck(authorBooks) ==
    ResSend(Fresh, 200, ArrayBody(authorBooks))

\* if (authorBooks.length === 0) res.status(404).json(...); res.json(authorBooks)
AuthorsResponse(authorBooks) ==
    LET st == IF Len(authorBooks) = 0
              THEN ResSend(Fresh, 404, TextBody(NoAuthorMsg))
              ELSE Fresh
    IN  ResSend(st, 200, ArrayBody(authorBooks))

\* app.get('/books/authors/:authorName'), Book.find resolved
AuthorsFound ==
    /\ pc = "awaitFind" /\ route = "/books/authors"
    /\ Finish(AuthorsResponse(FindByAuthor(store, param)))
    /\ UNCHANGED <<route, param, quickRead, topBooks, finds>>
    /\ UNCHANGED seedVars

\* app.get('/books/top-rated'), up to the first await Book.find(...)
GetTopRated ==
    /\ \E q \in QuickValues : Begin("/books/top-rated", <<>>, q)
    /\ pc' = "awaitFind"
    /\ finds' = 1
    /\ UNCHANGED <<topBooks, sendCalls, response, thrown, unhandled>>

\* app.get('/books/top-rated'), the first find resolved: with quickRead
\* truthy the second find is issued, otherwise res.json(topBooks).
TopRatedFound ==
    /\ pc = "awaitFind" /\ route = "/books/top-rated"
    /\ topBooks' = FindTopRated(store)
    /\ IF Truthy(quickRead)
       THEN /\ pc' = "awaitFind2"
            /\ finds' = 2
            /\ UNCHANGED <<sendCalls, response, thrown, unhandled>>
       ELSE /\ Finish(ResSend(Fresh, 200, ArrayBody(topBooks')))
            /\ UNCHANGED finds
    /\ UNCHANGED <<route, param, quickRead>>
    /\ UNCHANGED seedVars

\* res.json(topQuickReadBooks) inside the if, then res.json(topBooks)
TopQuickResponse(topQuickReadBooks, top) ==
    ResSend(ResSend(Fresh, 200, ArrayBody(topQuickReadBooks)), 200, ArrayBody(top))

\* app.get('/books/top-rated'), the second find resolved
TopQuickFound ==
    /\ pc = "awaitFind2" /\ route = "/books/top-rated"
    /\ Finish(TopQuickResponse(FindTopQuickRead(store), topBooks))
    /\ UNCHANGED <<route, param, quickRead, topBooks, finds>>
    /\ UNCHANGED seedVars

\* An awaited find of a handler without try/catch rejects because the store
\* failed: the handler ends there and its promise rejects unhandled.
StoreRejects ==
    /\ pc \in {"awaitFind", "awaitFind2"}
    /\ route \in {"/books", "/books/authors", "/books/top-rated"}
    /\ Finish([Fresh EXCEPT !.thrown = "StoreError"])
    /\ UNCHANGED <<route, param, quickRead, topBooks, finds>>
    /\ UNCHANGED seedVars

Next ==
    \/ Main
    \/ DeleteManyDone
    \/ SaveDone
    \/ GetRoot
    \/ GetBooks
    \/ BooksFound
    \/ GetBook
    \/ BookFound
    \/ BookCatch
    \/ GetAuthors
    \/ AuthorsFound
    \/ GetTopRated
    \/ TopRatedFound
    \/ TopQuickFound
    \/ StoreRejects

Spec == Init /\ [][Next]_vars

-----------------------------------------------------------------------------
(* Vocabulary of the properties, stated without the operators above *)

\* The text is a non-empty run of decimal digits.
IsIntegerText(s) == s # <<>> /\ \A i \in DOMAIN s : IsDigit(s[i])

RECURSIVE IntOf(_)
\* The integer a run of digits denotes.
IntOf(s) ==
    IF s = <<>> THEN 0
    ELSE 10 * IntOf(SubSeq(s, 1, Len(s) - 1)) + DigitVal(s[Len(s)])

Count(docs, b) == Cardinality({i \in DOMAIN docs : docs[i] = b})

\* `got` holds exactly the documents of `docs` that satisfy P, each as often
\* as docs holds it, and nothing else.
ExactlyThose(got, docs, P(_)) ==
    \A b \in Range(got) \cup Range(docs) :
        Count(got, b) = IF P(b) THEN Count(docs, b) ELSE 0

\* The text occurs in s as a literal substring, letter case ignored.
ContainsIgnoringCase(s, text) ==
    \E k \in 0..(Len(s) - Len(text)) :
        \A j \in DOMAIN text : Lower(s[k + j]) = Lower(text[j])

\* The same bookIDs, each as often.
SameIds(a, b) ==
    \A id \in {a[i].bookID : i \in DOMAIN a} \cup {b[i].bookID : i \in DOMAIN b} :
        Cardinality({i \in DOMAIN a : a[i].bookID = id})
            = Cardinality({i \in DOMAIN b : b[i].bookID = id})

\* This step is the store answering the awaited query of the given route,
\* and the handler running to its end.
Answered(r) ==
    /\ route = r
    /\ pc \in {"awaitFind", "awaitFind2"}
    /\ pc' = "done"
    /\ thrown' # "StoreError"

-----------------------------------------------------------------------------
(* Properties *)

\* C1: with RESET_DB set, no request is handled before deleteMany and every
\* save of the seed data have completed.
C1_NoRequestBeforeSeeded ==
    (resetDb /\ pc # "idle") => (seedPc = "finished" /\ pendingSaves = {})

\* C2: a /books/top-rated request whose store calls succeed issues exactly
\* one query and makes exactly one response-sending call, with or without
\* quickRead.
C2_OneQueryOneResponse ==
    (pc = "done" /\ route = "/books/top-rated" /\ thrown # "StoreError")
        => (finds = 1 /\ sendCalls = 1)

\* C3: once seedDatabase has finished, every GET /books the store answers
\* returns exactly the seed dataset's records: same count, same ids.
C3_BooksAfterSeedIsDataset ==
    [][(Answered("/books") /\ resetDb /\ seedPc = "finished")
        => /\ response'.status = 200
           /\ Len(response'.body.books) = Len(booksData)
           /\ SameIds(response'.body.books, booksData)]_vars

\* C4: for every :bookID text that is not an integer, GET /books/book/S is
\* answered 400 with {error: "Invalid Book ID, double check book id value"}.
C4_NonIntegerIdIs400 ==
    (pc = "done" /\ route = "/books/book" /\ ~IsIntegerText(param))
        => response = [status |-> 400, body |-> ErrorBody(InvalidIdMsg)]

\* C5: on every route a failure of the store is answered 500 and does not
\* escape the handler.
C5_StoreFailureIs500 ==
    (pc = "done" /\ thrown = "StoreError")
        => (response.status = 500 /\ ~unhandled)

\* C6: for an integer N that is the bookID of a stored record, GET
\* /books/book/N answered by the store is 200 with a single record whose
\* bookID is N, the first such record in store order.
C6_FirstMatchById ==
    [][(/\ Answered("/books/book")
        /\ thrown' = "none"
        /\ IsIntegerText(param)
        /\ \E i \in DOMAIN store : store[i].bookID = IntOf(param))
        => LET hits == {i \in DOMAIN store : store[i].bookID = IntOf(param)}
               first == CHOOSE i \in hits : \A j \in hits : i <= j
           IN  /\ response' = [status |-> 200, body |-> ObjectBody(store[first])]
               /\ response'.body.books[1].bookID = IntOf(param)
               /\ sendCalls' = 1]_vars

\* C6 witness: the lookup was answered with the first of two different
\* records sharing the requested bookID.
C6_Witness ==
    /\ pc = "done" /\ route = "/books/book" /\ ~resetDb
    /\ IsIntegerText(param)
    /\ \E i, j \in DOMAIN store :
        /\ i < j
        /\ store[i].bookID = IntOf(param) /\ store[j].bookID = IntOf(param)
        /\ store[i] # store[j]
        /\ \A k \in 1..(i - 1) : store[k].bookID # IntOf(param)
        /\ response = [status |-> 200, body |-> ObjectBody(store[i])]

\* C7: GET /books/authors/{name} answered by the store returns all and only
\* the records whose authors field contains the text as a literal substring,
\* letter case ignored, whatever characters the text holds.
C7_LiteralSubstringSearch ==
    [][(/\ route' = "/books/authors"
        /\ pc # "done" /\ pc' = "done"
        /\ thrown' # "StoreError")
        => /\ response'.status \in {200, 404}
           /\ ExactlyThose(response'.body.books, store,
                           LAMBDA b : ContainsIgnoringCase(b.authors, param'))]_vars

C9_EmptyResultStatus ==
    [][/\ (/\ Answered("/books/book")
           /\ thrown' = "none"
           /\ IsIntegerText(param)
           /\ \A i \in DOMAIN store : store[i].bookID # IntOf(param))
          => response' = [status |-> 404, body |-> TextBody(NoBookMsg)]
       /\ (/\ Answered("/books/authors")
           /\ \A i \in DOMAIN store : ~RegExpTest(param, store[i].authors))
          => response' = [status |-> 404, body |-> TextBody(NoAuthorMsg)]
       /\ (/\ Answered("/books/top-rated")
           /\ \A i \in DOMAIN store :
                ~(/\ store[i].average_rating >= 40
                  /\ Truthy(quickRead) => store[i].num_pages <= 600))
          => response' = [status |-> 200, body |-> ArrayBody(<<>>)]]_vars

\* C9 witness: an author search over a non-empty store matched nothing and
\* the client got the 404.
C9_Witness ==
    /\ pc = "done" /\ route = "/books/authors"
    /\ store # <<>> /\ ~resetDb
    /\ \A i \in DOMAIN store : ~ContainsIgnoringCase(store[i].authors, param)
    /\ response = [status |-> 404, body |-> TextBody(NoAuthorMsg)]

\* C10: the author handler, once its search has run, makes exactly one
\* response-sending call, also when the search matched nothing.
C10_AuthorsSendsOnce ==
    (pc = "done" /\ route = "/books/authors"
        /\ thrown \notin {"SyntaxError", "StoreError"})
        => sendCalls = 1

====
